---- MODULE Spec2Model ----
(***************************************************************************)
(* Finite-volume solver for the 2-D isothermal Euler equations on a        *)
(* periodic grid ("CFD Finite Volume.py").                                 *)
(*                                                                         *)
(* Real numbers are fixed-point integers: the real x is the integer        *)
(* x * Scale, products and quotients are rounded toward zero after every   *)
(* operation, in the order Python evaluates them.  Sums and differences    *)
(* are exact, so statements the specification makes "to floating-point     *)
(* tolerance" are stated here exactly or up to one rounding unit.          *)
(* Arrays are functions on Cells; <<i, j>> is numpy's [i, j]: i runs along *)
(* axis 0 (y), j along axis 1 (x).                                         *)
(***************************************************************************)
EXTENDS Integers, FiniteSets, Sequences, TLC

VARIABLES Mass, Momx, Momy,      \* conserved arrays of main()
          rho, vx, vy,           \* primitive arrays of main()
          t, dt, outputCount, plotThisTurn,
          tEnd, Nout,            \* run settings
          plot_field,            \* the array last handed to plt.imshow
          frames,                \* the imshow calls made: <<frame number, time>>
          pc                     \* "loop": at the while test; "done": after it

vars == <<Mass, Momx, Momy, rho, vx, vy, t, dt, outputCount, plotThisTurn,
          tEnd, Nout, plot_field, frames, pc>>

-----------------------------------------------------------------------------
(* Bounds of the model *)

\* cells per side (the program runs N = 100)
N == 3
\* fixed-point denominator: the integer Scale stands for the real 1
Scale == 10000
\* Nout ranges over 1..MaxNout
MaxNout == 3

-----------------------------------------------------------------------------
(* Fixed-point arithmetic *)

Trunc(x, d) == IF x >= 0 THEN x \div d ELSE -((-x) \div d)

Mul(a, b) == Trunc(a * b, Scale)

Div(a, b) == IF b > 0 THEN Trunc(a * Scale, b) ELSE -Trunc(a * Scale, -b)

Half(a) == Trunc(a, 2)

Abs(a) == IF a >= 0 THEN a ELSE -a

Max(a, b) == IF a >= b THEN a ELSE b

RECURSIVE ISqrtIn(_, _, _)
\* the largest r in lo..hi with r * r <= n, given lo * lo <= n
ISqrtIn(n, lo, hi) ==
  IF lo >= hi THEN lo
  ELSE CHOOSE r \in {IF mid * mid <= n THEN ISqrtIn(n, mid, hi)
                                       ELSE ISqrtIn(n, lo, mid - 1) :
                      mid \in {(lo + hi + 1) \div 2}} : TRUE

Sqrt(a) == ISqrtIn(a * Scale, 0, 40000)

-----------------------------------------------------------------------------
(* Arrays *)

Idx == 0 .. (N - 1)

Cells == Idx \X Idx

\* the value v as a one-element set, v computed once and in full, as numpy
\* computes an array expression: \E a \in Eager(v) : ... reads "let a = v"
Eager(v) == {a \in {v} : a = a}

R == -1

L == 1

aX == 1

aY == 0

roll_zero(f, shift, axis) ==
  [c \in Cells |->
     IF axis = aX
       THEN (IF c[2] - shift \in Idx THEN f[<<c[1], c[2] - shift>>] ELSE 0)
       ELSE (IF c[1] - shift \in Idx THEN f[<<c[1] - shift, c[2]>>] ELSE 0)]

roll(f, shift, axis) ==
  [c \in Cells |->
     IF axis = aX THEN f[<<c[1], (c[2] - shift) % N>>]
                  ELSE f[<<(c[1] - shift) % N, c[2]>>]]

\* np.min of an array
Min(F) == CHOOSE x \in {F[c] : c \in Cells} : \A c \in Cells : x <= F[c]

-----------------------------------------------------------------------------
(* The numerical scheme *)

Lbox == Scale

dx == Trunc(Lbox, N)

vol == Mul(dx, dx)

courant_fac == Half(Scale)

conserved_variables(rho_, vx_, vy_, V) ==
  [m  |-> [c \in Cells |-> Mul(rho_[c], V)],
   px |-> [c \in Cells |-> Mul(Mul(rho_[c], V), vx_[c])],
   py |-> [c \in Cells |-> Mul(Mul(rho_[c], V), vy_[c])]]

primitive_variables(m, px, py, V) ==
  LET rho_ == [c \in Cells |-> Div(m[c], V)]
  IN [rho |-> rho_,
      vx  |-> [c \in Cells |-> Div(Div(px[c], rho_[c]), V)],
      vy  |-> [c \in Cells |-> Div(Div(py[c], rho_[c]), V)]]

grad(f, dx_) ==
  LET xr == roll(f, R, aX)
      xl == roll(f, L, aX)
      yr == roll(f, R, aY)
      yl == roll(f, L, aY)
  IN [f_dx |-> [c \in Cells |-> Div(xr[c] - xl[c], 2 * dx_)],
      f_dy |-> [c \in Cells |-> Div(yr[c] - yl[c], 2 * dx_)]]

extrapolate(f, f_dx, f_dy, dx_) ==
  [XL |-> roll([c \in Cells |-> f[c] - Half(Mul(f_dx[c], dx_))], R, aX),
   XR |-> [c \in Cells |-> f[c] + Half(Mul(f_dx[c], dx_))],
   YL |-> roll([c \in Cells |-> f[c] - Half(Mul(f_dy[c], dx_))], R, aY),
   YR |-> [c \in Cells |-> f[c] + Half(Mul(f_dy[c], dx_))]]

apply_flux_sign(F, flux_F_X, flux_F_Y, dx_, dt_) ==
  LET rx == roll(flux_F_X, L, aX)
      ry == roll(flux_F_Y, L, aY)
  IN [c \in Cells |->
       F[c] - Mul(Mul(dt_, dx_), flux_F_X[c]) + Mul(Mul(dt_, dx_), rx[c])
            - Mul(Mul(dt_, dx_), flux_F_Y[c]) - Mul(Mul(dt_, dx_), ry[c])]

apply_flux(F, flux_F_X, flux_F_Y, dx_, dt_) ==
  LET rx == roll(flux_F_X, L, aX)
      ry == roll(flux_F_Y, L, aY)
  IN [c \in Cells |->
       F[c] - Mul(Mul(dt_, dx_), flux_F_X[c]) + Mul(Mul(dt_, dx_), rx[c])
            - Mul(Mul(dt_, dx_), flux_F_Y[c]) + Mul(Mul(dt_, dx_), ry[c])]

\* the three returned arrays, in the order of the return statement:
\* <<flux_Mass, flux_Momx, flux_Momy>>
get_flux(rho_L, rho_R, vx_L, vx_R, vy_L, vy_R) ==
  LET rho_star  == [c \in Cells |-> Half(rho_L[c] + rho_R[c])]
      momx_star == [c \in Cells |->
                      Half(Mul(rho_L[c], vx_L[c]) + Mul(rho_R[c], vx_R[c]))]
      momy_star == [c \in Cells |->
                      Half(Mul(rho_L[c], vy_L[c]) + Mul(rho_R[c], vy_R[c]))]
      P_star    == rho_star
      C == [c \in Cells |-> Max(Scale + Abs(vx_L[c]), Scale + Abs(vx_R[c]))]
  IN << [c \in Cells |->
           momx_star[c] - Mul(Half(C[c]), rho_L[c] - rho_R[c])],
        [c \in Cells |->
           Div(Mul(momx_star[c], momx_star[c]), rho_star[c]) + P_star[c]
           - Mul(Half(C[c]), Mul(rho_L[c], vx_L[c]) - Mul(rho_R[c], vx_R[c]))],
        [c \in Cells |->
           Div(Mul(momx_star[c], momy_star[c]), rho_star[c])
           - Mul(Half(C[c]), Mul(rho_L[c], vy_L[c]) - Mul(rho_R[c], vy_R[c]))] >>

-----------------------------------------------------------------------------
(* The time step *)

speed(vx_, vy_) ==
  [c \in Cells |-> Sqrt(Mul(vx_[c], vx_[c]) + Mul(vy_[c], vy_[c]))]

cfl_timestep_max(vx_, vy_) ==
  LET s == speed(vx_, vy_)
  IN -Min([c \in Cells |-> -Mul(courant_fac, Div(dx, Scale + s[c]))])

\* courant_fac * np.min( dx / (1 + np.sqrt(vx**2+vy**2)) )
cfl_timestep(vx_, vy_) ==
  LET s == speed(vx_, vy_)
  IN Mul(courant_fac, Min([c \in Cells |-> Div(dx, Scale + s[c])]))

\* outputCount*tEnd/Nout
Target(outputCount_, tEnd_, Nout_) == Trunc(outputCount_ * tEnd_, Nout_)

plot_due(t_, dt_, target) == t_ + dt_ > target

snapped_dt_never(t_, dt_, target) == dt_

snapped_dt(t_, dt_, target) == IF plot_due(t_, dt_, target) THEN target - t_ ELSE dt_

next_outputCount_always(outputCount_, plot) == outputCount_ + 1

next_outputCount_never(outputCount_, plot) == outputCount_

next_outputCount(outputCount_, plot) == IF plot THEN outputCount_ + 1 ELSE outputCount_

-----------------------------------------------------------------------------
(* One pass of the loop body: the fluxes and the update *)

\* the half-step predictor and the face values of the three primitive fields
faces(rho_, vx_, vy_, dt_) ==
  LET g_rho == grad(rho_, dx)
      g_vx  == grad(vx_, dx)
      g_vy  == grad(vy_, dx)
      rho_dx == g_rho.f_dx
      rho_dy == g_rho.f_dy
      vx_dx  == g_vx.f_dx
      vx_dy  == g_vx.f_dy
      vy_dx  == g_vy.f_dx
      vy_dy  == g_vy.f_dy
      P_dx == rho_dx
      P_dy == rho_dy
      rho_prime == [c \in Cells |-> rho_[c] - Mul(Half(dt_),
                      Mul(vx_[c], rho_dx[c]) + Mul(rho_[c], vx_dx[c])
                    + Mul(vy_[c], rho_dy[c]) + Mul(rho_[c], vy_dy[c]))]
      vx_prime  == [c \in Cells |-> vx_[c] - Mul(Half(dt_),
                      Mul(vx_[c], vx_dx[c]) + Mul(vy_[c], vx_dy[c])
                    + Mul(Div(Scale, rho_[c]), P_dx[c]))]
      vy_prime  == [c \in Cells |-> vy_[c] - Mul(Half(dt_),
                      Mul(vx_[c], vy_dx[c]) + Mul(vy_[c], vy_dy[c])
                    + Mul(Div(Scale, rho_[c]), P_dy[c]))]
  IN [rho |-> extrapolate(rho_prime, rho_dx, rho_dy, dx),
      vx  |-> extrapolate(vx_prime, vx_dx, vx_dy, dx),
      vy  |-> extrapolate(vy_prime, vy_dx, vy_dy, dx)]

fluxes_untransposed(f) ==
  LET in_x == get_flux(f.rho.XL, f.rho.XR, f.vx.XL, f.vx.XR, f.vy.XL, f.vy.XR)
      in_y == get_flux(f.rho.YL, f.rho.YR, f.vy.YL, f.vy.YR, f.vx.YL, f.vx.YR)
  IN [flux_Mass_X |-> in_x[1], flux_Momx_X |-> in_x[2], flux_Momy_X |-> in_x[3],
      flux_Mass_Y |-> in_y[1], flux_Momx_Y |-> in_y[2], flux_Momy_Y |-> in_y[3]]

\* the two get_flux calls and the unpacking of their results
fluxes(f) ==
  LET in_x == get_flux(f.rho.XL, f.rho.XR, f.vx.XL, f.vx.XR, f.vy.XL, f.vy.XR)
      in_y == get_flux(f.rho.YL, f.rho.YR, f.vy.YL, f.vy.YR, f.vx.YL, f.vx.YR)
  IN [flux_Mass_X |-> in_x[1], flux_Momx_X |-> in_x[2], flux_Momy_X |-> in_x[3],
      flux_Mass_Y |-> in_y[1], flux_Momy_Y |-> in_y[2], flux_Momx_Y |-> in_y[3]]

-----------------------------------------------------------------------------
(* Initial conditions and run settings *)

\* a periodic profile along one axis, standing for the sampled sine
Wave(k) == CASE k % 3 = 0 -> 1 [] k % 3 = 1 -> 0 [] OTHER -> -1

\* the timestep the fluid at rest gets
RestDt == Mul(courant_fac, Div(dx, Scale))

RhoAmps == {0, Scale \div 5}

VxAmps == {0, Half(Scale)}

VyAmps == {0, Scale \div 10}

\* a whole number of rest timesteps, 0.5, and the program's 1/np.sqrt(3)
TEnds == {2 * RestDt, Half(Scale), Div(Scale, Sqrt(3 * Scale))}

rho0(a) == [c \in Cells |-> Scale + a * Wave(c[2])]

vx0(a) == [c \in Cells |-> a * Wave(c[1])]

vy0(a) == [c \in Cells |-> a * Wave(c[2] + 1) * Wave(c[1]) * Wave(c[1])]

NoFrame == [c \in Cells |-> 0]

Init ==
  /\ \E ar \in RhoAmps, ax \in VxAmps, ay \in VyAmps :
       /\ rho = rho0(ar)
       /\ vx = vx0(ax)
       /\ vy = vy0(ay)
       /\ LET q == conserved_variables(rho0(ar), vx0(ax), vy0(ay), vol)
          IN Mass = q.m /\ Momx = q.px /\ Momy = q.py
  /\ tEnd \in TEnds
  /\ Nout \in 1 .. MaxNout
  /\ t = 0
  /\ dt = 0
  /\ outputCount = 1
  /\ plotThisTurn = FALSE
  /\ plot_field = NoFrame
  /\ frames = {}
  /\ pc = "loop"

-----------------------------------------------------------------------------
(* The main loop *)

LoopBody ==
  /\ pc = "loop"
  /\ t < tEnd
  /\ \E p \in Eager(primitive_variables(Mass, Momx, Momy, vol)) :
     \E cfl \in {cfl_timestep(p.vx, p.vy)} :
     \E target \in {Target(outputCount, tEnd, Nout)} :
     \E due \in {plot_due(t, cfl, target)} :
     \E h \in {snapped_dt(t, cfl, target)} :
     \E f \in Eager(faces(p.rho, p.vx, p.vy, h)) :
     \E fl \in Eager(fluxes(f)) :
        /\ rho' = p.rho
        /\ vx' = p.vx
        /\ vy' = p.vy
        /\ dt' = h
        /\ plotThisTurn' = due
        /\ Mass' = apply_flux(Mass, fl.flux_Mass_X, fl.flux_Mass_Y, dx, h)
        /\ Momx' = apply_flux(Momx, fl.flux_Momx_X, fl.flux_Momx_Y, dx, h)
        /\ Momy' = apply_flux(Momy, fl.flux_Momy_X, fl.flux_Momy_Y, dx, h)
        /\ t' = t + h
        /\ plot_field' = IF due THEN p.rho ELSE plot_field
        /\ frames' = IF due THEN frames \cup {<<outputCount, t + h>>} ELSE frames
        /\ outputCount' = next_outputCount(outputCount, due)
  /\ UNCHANGED <<tEnd, Nout, pc>>

LoopExit ==
  /\ pc = "loop"
  /\ ~(t < tEnd)
  /\ pc' = "done"
  /\ UNCHANGED <<Mass, Momx, Momy, rho, vx, vy, t, dt, outputCount, plotThisTurn,
                 tEnd, Nout, plot_field, frames>>

Next == LoopBody \/ LoopExit

Spec == Init /\ [][Next]_vars

\* the loop is the only thread: it keeps running until its test fails
LiveSpec == Spec /\ WF_vars(Next)

-----------------------------------------------------------------------------
(* Properties *)

RECURSIVE SumTo(_, _)
SumTo(F, k) ==
  IF k = 0 THEN 0 ELSE F[<<(k - 1) \div N, (k - 1) % N>>] + SumTo(F, k - 1)

\* the sum of an array over all cells
Total(F) == SumTo(F, N * N)

\* the density of the conserved state as it stands
CurrentDensity == primitive_variables(Mass, Momx, Momy, vol).rho

\* C1: every step of the main loop leaves the total mass, the total
\* x-momentum and the total y-momentum over the periodic grid unchanged:
\* what apply_flux takes from a cell it gives to the periodic neighbour.
C1_Conservation ==
  [][/\ Total(Mass') = Total(Mass)
     /\ Total(Momx') = Total(Momx)
     /\ Total(Momy') = Total(Momy)]_vars

\* a step with dt > 0 has moved mass between cells
C1_Witness ==
  /\ t > 0
  /\ dt > 0
  /\ \E c \in Cells : CurrentDensity[c] # rho[c]

\* C2: when the loop has exited, a frame has been drawn for each
\* k = 1..Nout and for no other number, the k-th at t = k*tEnd/Nout.
C2_AllFramesFired ==
  pc = "done" => frames = {<<k, Target(k, tEnd, Nout)>> : k \in 1 .. Nout}

\* C3: no step takes t past the output target it was heading for: a step
\* that is output-due ends exactly on its target (the target of the frame
\* number just used), any other step ends at or before the target still
\* pending; and t never exceeds tEnd.
C3_NoOvershoot ==
  /\ t <= tEnd
  /\ IF plotThisTurn THEN t = Target(outputCount - 1, tEnd, Nout)
                     ELSE t <= Target(outputCount, tEnd, Nout)

\* the last step was cut short of its CFL timestep to land on the target
C3_Witness ==
  /\ plotThisTurn
  /\ 0 < dt
  /\ dt < cfl_timestep(vx, vy)
  /\ t = Target(outputCount - 1, tEnd, Nout)

\* C4: after an output-due step the array handed to the display is the
\* density of the conserved state as updated by that step.
C4_FrameIsCurrent == plotThisTurn => plot_field = CurrentDensity

IsRest ==
  \A c \in Cells : Mass[c] = Mul(Scale, vol) /\ Momx[c] = 0 /\ Momy[c] = 0

\* C6: the uniform state rho = 1, vx = vy = 0 is a fixed point: a step
\* taken from it, with whatever dt, leaves every cell's mass and momenta
\* unchanged.
C6_RestIsFixed == [][IsRest => IsRest']_vars

\* steps, a snapped one among them, have been taken from the rest state
C6_Witness == IsRest /\ t > 0 /\ dt > 0 /\ frames # {}

\* C7: the timestep of the last step satisfies the CFL bound in every cell,
\* dt * (1 + speed) <= courant_fac * dx, with the speeds of the primitives
\* the step started from; on a step that is not output-due the fastest cell
\* attains the bound (up to the rounding of the two operations that compute
\* dt), on an output-due step dt is strictly smaller than the CFL timestep.
C7_CflBound ==
  t > 0 =>
    LET s == speed(vx, vy)
        fastest == CHOOSE c \in Cells : \A d \in Cells : s[d] <= s[c]
    IN /\ \A c \in Cells : dt * (Scale + s[c]) <= courant_fac * dx
       /\ ~plotThisTurn =>
            courant_fac * dx - dt * (Scale + s[fastest]) < 2 * (Scale + s[fastest])
       /\ plotThisTurn =>
            dt < Mul(courant_fac, Div(dx, Scale + s[fastest]))

\* a full CFL step was taken in a flow whose cells differ in speed
C7_Witness ==
  /\ t > 0
  /\ ~plotThisTurn
  /\ \E c, d \in Cells : speed(vx, vy)[c] < speed(vx, vy)[d]

\* C8: the loop terminates: t reaches tEnd and the loop is left.
C8_Terminates == <>(pc = "done" /\ t >= tEnd)

\* the loop has been left after steps that drew frames
C8_Witness == pc = "done" /\ t >= tEnd /\ frames # {} /\ dt > 0

\* the Riemann solver by role: the second velocity pair is the one normal
\* to the face, the third the tangential one
Riemann(rho_L, rho_R, vn_L, vn_R, vt_L, vt_R) ==
  LET r == get_flux(rho_L, rho_R, vn_L, vn_R, vt_L, vt_R)
  IN [mass |-> r[1], normal |-> r[2], tangential |-> r[3]]

\* C9: in every step mass is updated with the mass fluxes of the x-call
\* (vx normal) and the y-call (vy normal), x-momentum with the normal flux
\* of the x-call and the tangential flux of the y-call, y-momentum with the
\* tangential flux of the x-call and the normal flux of the y-call.
C9_AxisConvention ==
  [][LoopBody =>
       \E f \in Eager(faces(rho', vx', vy', dt')) :
       \E xcall \in Eager(Riemann(f.rho.XL, f.rho.XR, f.vx.XL, f.vx.XR, f.vy.XL, f.vy.XR)) :
       \E ycall \in Eager(Riemann(f.rho.YL, f.rho.YR, f.vy.YL, f.vy.YR, f.vx.YL, f.vx.YR)) :
          /\ Mass' = apply_flux(Mass, xcall.mass, ycall.mass, dx, dt')
          /\ Momx' = apply_flux(Momx, xcall.normal, ycall.tangential, dx, dt')
          /\ Momy' = apply_flux(Momy, xcall.tangential, ycall.normal, dx, dt')]_vars

\* the last step had normal and tangential momentum fluxes that differ, on
\* the x-faces and on the y-faces, and both momenta are in motion
C9_Witness ==
  /\ t > 0
  /\ dt > 0
  /\ \E fl \in Eager(fluxes(faces(rho, vx, vy, dt))) :
        /\ fl.flux_Momx_X # fl.flux_Momy_X
        /\ fl.flux_Momx_Y # fl.flux_Momy_Y
        /\ fl.flux_Momx_Y # fl.flux_Momy_X
  /\ \E c \in Cells : Momx[c] # 0
  /\ \E c \in Cells : Momy[c] # 0

\* C10: every pass of the loop body advances t by a strictly positive dt.
C10_PositiveDt == [][LoopBody => t' > t]_vars

====
